---- MODULE Spec2Model ----
(***************************************************************************)
(* State-machine model of the CSV import container (DataImportContainer):  *)
(* file ingestion, the column-mapping validator, the export gate and       *)
(* transform, and the delayed completions that commit to the product list. *)
(***************************************************************************)
EXTENDS Integers, Sequences, FiniteSets, TLC

VARIABLES
    viewMode,        \* 'productGrid' | 'csvImport'
    productData,     \* the in-memory product list
    csvData,         \* the SourceRow list
    originalColumns, \* the header list
    columnMappings,  \* the ColumnMapping list
    toast,           \* the notification last shown (useCustomToast state)
    parsing,         \* files handed to Papa.parse whose completion is pending
    timers,          \* pending setTimeout callbacks, oldest first
    vIn,             \* validator under test: the list passed in
    vOut,            \* validator under test: the list returned
    editDialog,      \* the row edit dialog: open, rowData, rowIndex
    editFormData,    \* the row edit dialog's form
    confirmDialog,   \* the product grid's confirmation dialog
    now,             \* the last value that Date.now() returned
    productDialog,   \* the product grid's edit dialog: open, product
    formData,        \* the form of EditProductDialog
    isUploading,     \* EditProductDialog: an image upload is in flight
    uploads          \* image uploads in flight, oldest first

importVars == <<csvData, originalColumns, columnMappings>>
pureVars == <<vIn, vOut>>
dialogVars == <<editDialog, editFormData, confirmDialog>>
gridVars == <<productDialog, formData, isUploading, uploads>>
vars == <<viewMode, productData, csvData, originalColumns, columnMappings,
          toast, parsing, timers, vIn, vOut, editDialog, editFormData,
          confirmDialog, now, productDialog, formData, isUploading, uploads>>

----------------------------------------------------------------------------
(* Bounds of the model. *)

MaxParsing == 1   \* parses in flight at once
MaxTimers == 1    \* pending delayed completions
MaxProducts == 4  \* product-list length up to which an export is started
MaxLen == 3       \* length of the lists handed to the validator under test
MaxClock == 1     \* milliseconds that pass in a session

----------------------------------------------------------------------------
(* Helpers over sequences and objects (JavaScript objects are functions    *)
(* from keys to values).                                                   *)

Range(s) == {s[i] : i \in DOMAIN s}

Undefined == "<undefined>"

Get(obj, key) == IF key \in DOMAIN obj THEN obj[key] ELSE Undefined

Put(obj, key, value) ==
    [k \in DOMAIN obj \cup {key} |-> IF k = key THEN value ELSE obj[k]]

EmptyObject == [k \in {} |-> Undefined]

Null == "<null>"

\* a row index or a row that is null, and <<value>> for one that is set
NoRow == <<>>

\* ids are tuples: <<"1">>, <<"temp", 0>>, <<"new", 0>>; the empty string is
\* the empty tuple, and so is the null of confirmDialog.itemId, which its
\* only reader treats like the empty string
NoId == <<>>

\* String.prototype.trim() === '' on the names and cells of the model
IsBlank(s) == s \in {"", " "}

----------------------------------------------------------------------------
(* Schema registry. *)

\* the six fields that columns of the seven-header scenario denote
SixRequiredFields ==
    <<"companyID", "productTypeID", "productName", "productDescription",
      "globalProductCategory", "netContent">>

requiredApiFields ==
    <<"companyID", "productTypeID", "companyName", "productName",
      "productDescription", "productImage", "globalProductCategory",
      "netContent">>

\* String.prototype.toLowerCase() on the names of the model
ToLowerCase(name) ==
    CASE name = "companyID" -> "companyid"
      [] name = "productTypeID" -> "producttypeid"
      [] name = "companyName" -> "companyname"
      [] name = "productName" -> "productname"
      [] name = "productDescription" -> "productdescription"
      [] name = "productImage" -> "productimage"
      [] name = "globalProductCategory" -> "globalproductcategory"
      [] name = "netContent" -> "netcontent"
      [] name = "metaData" -> "metadata"
      [] OTHER -> name

\* membership that ignores letter case, as the fuzzy match of the first
\* revision does
IsRequiredFieldIgnoringCase(name) ==
    \E i \in DOMAIN requiredApiFields :
        ToLowerCase(requiredApiFields[i]) = ToLowerCase(name)

IsRequiredField(name) == name \in Range(requiredApiFields)

----------------------------------------------------------------------------
(* Notifications. *)

Toast(severity, text, fields, count) ==
    [severity |-> severity, text |-> text, fields |-> fields, count |-> count]

NoToast == Toast("info", "", <<>>, 0)

showError(text, fields) == Toast("error", text, fields, 0)

showSuccess(text, count) == Toast("success", text, <<>>, count)

----------------------------------------------------------------------------
(* Column mapping validator. *)

NoError == <<>>
SelectionRequired == <<"Please select a mapping for this column">>
AlreadyMapped(name) == <<"is already mapped to another column", name>>
NotAValidField(name) == <<"is not a valid ProductTypeDto field", name>>

\* dtoFieldUsage.get(name) || 0 after the counting pass
dtoFieldUsage(mappings, name) ==
    Cardinality({i \in DOMAIN mappings :
        /\ ~mappings[i].isMetadata
        /\ mappings[i].mappedName # ""
        /\ mappings[i].mappedName # "metaData"
        /\ mappings[i].mappedName = name})

\* the branch for the metadata sentinel
MetadataKeepsValidity(mapping) ==
    [mapping EXCEPT !.isMetadata = TRUE, !.errorMessage = NoError]

MetadataMapping(mapping) ==
    [mapping EXCEPT !.isValid = TRUE, !.isMetadata = TRUE,
                    !.errorMessage = NoError]

\* the body of the validating pass for one entry
ValidateMapping(mapping, usageCount) ==
    IF IsBlank(mapping.mappedName)
    THEN [mapping EXCEPT !.isValid = FALSE, !.errorMessage = SelectionRequired]
    ELSE IF mapping.mappedName = "metaData"
    THEN MetadataMapping(mapping)
    ELSE IF IsRequiredField(mapping.mappedName)
    THEN IF usageCount > 1
         THEN [mapping EXCEPT !.isValid = FALSE, !.isMetadata = FALSE,
                              !.errorMessage = AlreadyMapped(mapping.mappedName)]
         ELSE [mapping EXCEPT !.isValid = TRUE, !.isMetadata = FALSE,
                              !.errorMessage = NoError]
    ELSE [mapping EXCEPT !.isValid = FALSE, !.isMetadata = FALSE,
                         !.errorMessage = NotAValidField(mapping.mappedName)]

\* a validator that normalises a blank name to the empty string
validateTrimming(mappings) ==
    [i \in DOMAIN mappings |->
        ValidateMapping(
            [mappings[i] EXCEPT !.mappedName = IF IsBlank(@) THEN "" ELSE @],
            dtoFieldUsage(mappings, mappings[i].mappedName))]

\* a validator in which the first column to claim a field wins
validateFirstWins(mappings) ==
    [i \in DOMAIN mappings |->
        ValidateMapping(mappings[i],
                        dtoFieldUsage(SubSeq(mappings, 1, i),
                                      mappings[i].mappedName))]

validateAllColumnMappings(mappings) ==
    [i \in DOMAIN mappings |->
        ValidateMapping(mappings[i],
                        dtoFieldUsage(mappings, mappings[i].mappedName))]

----------------------------------------------------------------------------
(* Files offered to the file chooser: what Papa.parse reports for each     *)
(* (header: false, skipEmptyLines: true, so no row is a lone empty cell).  *)

CsvFile(name, type, errors, data) ==
    [name |-> name, type |-> type, errors |-> errors, data |-> data]

ScenarioFile ==
    CsvFile(<<"scenario", ".csv">>, "text/csv", 0,
        << <<"CoID", "PTID", "Name", "Desc", "Cat", "Amt", "Extra">>,
           <<"C1", "P1", "Widget", "A widget", "Tools", "10", "note">> >>)

FullFile ==
    CsvFile(<<"full", ".csv">>, "application/vnd.ms-excel", 0,
        << <<"CoID", "PTID", "Name", "Desc", "Cat", "Amt", "Extra",
             "CoName", "Img">>,
           <<"C1", "P1", "Widget", "A widget", "Tools", "10", "note",
             "Acme", "w.png">>,
           <<"", " ", "", "", "", "", "", "", "">>,
           <<"C2", "P2", "Gadget", "A gadget", "Toys", "20", "", "Bolt">> >>)

ExactFile ==
    CsvFile(<<"exact", ".csv">>, "text/csv", 0,
        << <<"CoID", "PTID", "Name", "Desc", "Cat", "Amt", "CoName", "Img">>,
           <<"C3", "P3", "Sprocket", "A sprocket", "Parts", "30", "Cog",
             "s.png">> >>)

HeaderOnlyFile ==
    CsvFile(<<"headers", ".txt">>, "text/csv", 0,
        << <<"CoID", "PTID", "Extra">> >>)

BlankRowsFile ==
    CsvFile(<<"blank", ".csv">>, "text/csv", 0,
        << <<"CoID", "Extra">>, <<"", " ">>, <<" ", "">> >>)

BrokenFile ==
    CsvFile(<<"broken", ".csv">>, "text/csv", 1,
        << <<"CoID", "Extra">>, <<"C9">> >>)

NotCsvFile ==
    CsvFile(<<"notes", ".txt">>, "text/plain", 0,
        << <<"CoID", "Extra">>, <<"C8", "x">> >>)

DupHeaderFile ==
    CsvFile(<<"dup", ".csv">>, "text/csv", 0,
        << <<"CoID", "CoID">>, <<"C5", "C6">> >>)

Files ==
    <<ScenarioFile, FullFile, ExactFile, HeaderOnlyFile, BlankRowsFile,
      BrokenFile, NotCsvFile, DupHeaderFile>>

\* file.name.endsWith('.csv')
EndsWithCsv(name) == name[Len(name)] = ".csv"

\* The mapping names a user tries for a column, by its header: the metadata
\* sentinel, the field the header denotes, and for the spare column a blank,
\* two fields other columns denote and a misspelt field.
Denotes(header) ==
    CASE header = "CoID" -> {"companyID"}
      [] header = "PTID" -> {"productTypeID"}
      [] header = "Name" -> {"productName"}
      [] header = "Desc" -> {"productDescription"}
      [] header = "Cat" -> {"globalProductCategory"}
      [] header = "Amt" -> {"netContent"}
      [] header = "CoName" -> {"companyName"}
      [] header = "Img" -> {"productImage"}
      [] header = "Extra" -> {"", "companyID", "productTypeID", "companyid"}
      [] OTHER -> {}

Options(header) == {"metaData"} \cup Denotes(header)

\* The user maps the columns that denote a field in file order and unmaps
\* them in the reverse order; the spare column is edited at any time.
UserPicks(mappings, index, name) ==
    LET denoting(j) == Cardinality(Denotes(mappings[j].originalName)) = 1
        unmappedBefore == {j \in DOMAIN mappings :
            j < index /\ denoting(j) /\ mappings[j].mappedName = "metaData"}
        mappedAfter == {j \in DOMAIN mappings :
            j > index /\ denoting(j) /\ mappings[j].mappedName # "metaData"}
    IN  /\ name \in Options(mappings[index].originalName)
        /\ denoting(index) =>
               IF name = "metaData"
               THEN mappedAfter = {}
               ELSE unmappedBefore = {}

----------------------------------------------------------------------------
(* Ingestion. *)

\* row[index] || ''
Cell(row, index) == IF index <= Len(row) THEN row[index] ELSE ""

\* row.some(cell => cell.trim() !== '')
NonBlankRow(row) == \E i \in DOMAIN row : ~IsBlank(row[i])

LastIndexOf(headers, header) ==
    CHOOSE i \in DOMAIN headers :
        /\ headers[i] = header
        /\ \A j \in DOMAIN headers : headers[j] = header => j <= i

\* headers.forEach((header, index) => obj[header] = row[index] || '')
RowObject(headers, row) ==
    [h \in Range(headers) |-> Cell(row, LastIndexOf(headers, h))]

csvObjects(data) ==
    LET headers == Head(data)
        rows == SelectSeq(Tail(data), NonBlankRow)
    IN  [r \in DOMAIN rows |-> RowObject(headers, rows[r])]

\* seeding every column unmapped, as the earlier revision of the uploader does
SeedUnmapped(headers) ==
    [i \in DOMAIN headers |->
        [originalName |-> headers[i], mappedName |-> "", isValid |-> FALSE,
         isMetadata |-> FALSE, errorMessage |-> SelectionRequired]]

initialMappings(headers) ==
    [i \in DOMAIN headers |->
        [originalName |-> headers[i], mappedName |-> "metaData",
         isValid |-> TRUE, isMetadata |-> TRUE, errorMessage |-> NoError]]

TooFewLinesOffByOne(data) == Len(data) < 1

\* data.length < 2
TooFewLines(data) == Len(data) < 2

AbortIngestionClearing(message) ==
    /\ toast' = message
    /\ csvData' = <<>>
    /\ originalColumns' = <<>>
    /\ columnMappings' = <<>>

\* showError(...); return
AbortIngestion(message) ==
    /\ toast' = message
    /\ UNCHANGED importVars

\* handleFileUpload up to the call of Papa.parse
HandleFileUpload(f) ==
    /\ viewMode = "csvImport"
    /\ IF Files[f].type # "text/csv" /\ ~EndsWithCsv(Files[f].name)
       THEN /\ AbortIngestion(showError("Please upload a valid CSV file", <<>>))
            /\ UNCHANGED parsing
       ELSE /\ Cardinality(parsing) < MaxParsing
            /\ f \notin parsing
            /\ parsing' = parsing \cup {f}
            /\ UNCHANGED <<toast, importVars>>
    /\ UNCHANGED <<viewMode, productData, timers, pureVars, gridVars, dialogVars, now>>

\* the complete callback handed to Papa.parse
ParseComplete(f) ==
    /\ f \in parsing
    /\ parsing' = parsing \ {f}
    /\ IF Files[f].errors > 0
       THEN AbortIngestion(showError("Error parsing CSV file", <<>>))
       ELSE IF TooFewLines(Files[f].data)
       THEN AbortIngestion(showError(
                "CSV file must contain header and at least one data row", <<>>))
       ELSE /\ originalColumns' = Head(Files[f].data)
            /\ columnMappings' = initialMappings(Head(Files[f].data))
            /\ csvData' = csvObjects(Files[f].data)
            /\ toast' = showSuccess("Successfully loaded rows",
                                    Len(csvObjects(Files[f].data)))
    /\ UNCHANGED <<viewMode, productData, timers, pureVars, gridVars, dialogVars, now>>

----------------------------------------------------------------------------
(* Mapping edits. *)

HandleColumnMappingChange(index, newMappedName) ==
    /\ viewMode = "csvImport"
    /\ index \in DOMAIN columnMappings
    /\ columnMappings' = validateAllColumnMappings(
            [columnMappings EXCEPT ![index].mappedName = newMappedName])
    /\ UNCHANGED <<viewMode, productData, csvData, originalColumns, toast,
                   parsing, timers, pureVars, gridVars, dialogVars, now>>

----------------------------------------------------------------------------
(* Row edits. The data grid is rendered while rows are loaded, and the     *)
(* edit dialog is modal: its buttons need it open, the grid's need it      *)
(* closed.                                                                 *)

\* the import view shows the data grid with its row actions
RowActionsOffered ==
    /\ viewMode = "csvImport"
    /\ Len(csvData) > 0
    /\ ~editDialog.open

HandleEditRow(index) ==
    /\ RowActionsOffered
    /\ index \in DOMAIN csvData
    /\ editFormData' = csvData[index]
    /\ editDialog' = [open |-> TRUE, rowData |-> <<csvData[index]>>,
                    rowIndex |-> <<index>>]
    /\ UNCHANGED <<viewMode, productData, importVars, toast, parsing, timers,
                   pureVars, gridVars, confirmDialog, now>>

\* handleFieldChange of the edit dialog
HandleFieldChange(column, value) ==
    /\ viewMode = "csvImport"
    /\ editDialog.open
    /\ column \in Range(originalColumns)
    /\ editFormData' = Put(editFormData, column, value)
    /\ UNCHANGED <<viewMode, productData, importVars, toast, parsing, timers,
                   pureVars, gridVars, editDialog, confirmDialog, now>>

HandleDeleteRow(index) ==
    /\ RowActionsOffered
    /\ index \in DOMAIN csvData
    /\ csvData' = [k \in 1..(Len(csvData) - 1) |->
                       IF k < index THEN csvData[k] ELSE csvData[k + 1]]
    /\ toast' = showSuccess("Row deleted successfully", 0)
    /\ UNCHANGED <<viewMode, productData, originalColumns, columnMappings,
                   parsing, timers, pureVars, gridVars, dialogVars, now>>

\* updatedData[rowIndex] = editFormData on a copy of the row list; an index
\* past the end lengthens the list and leaves the slots between unset
SetRow(rows, index, row) ==
    [k \in 1..(IF index > Len(rows) THEN index ELSE Len(rows)) |->
        IF k = index THEN row
        ELSE IF k <= Len(rows) THEN rows[k] ELSE Undefined]

HandleSaveEdit ==
    /\ viewMode = "csvImport"
    /\ editDialog.open
    /\ IF editDialog.rowIndex # NoRow
       THEN /\ csvData' = SetRow(csvData, editDialog.rowIndex[1],
                                 editFormData)
            /\ editDialog' = [open |-> FALSE, rowData |-> NoRow, rowIndex |-> NoRow]
            /\ editFormData' = EmptyObject
            /\ toast' = showSuccess("Row updated successfully", 0)
       ELSE UNCHANGED <<csvData, editDialog, editFormData, toast>>
    /\ UNCHANGED <<viewMode, productData, originalColumns, columnMappings,
                   parsing, timers, pureVars, gridVars, confirmDialog, now>>

HandleCloseEdit ==
    /\ viewMode = "csvImport"
    /\ editDialog.open
    /\ editDialog' = [open |-> FALSE, rowData |-> NoRow, rowIndex |-> NoRow]
    /\ editFormData' = EmptyObject
    /\ UNCHANGED <<viewMode, productData, importVars, toast, parsing, timers,
                   pureVars, gridVars, confirmDialog, now>>

----------------------------------------------------------------------------
(* Diagnostics of the column-mapping view. *)

\* fieldUsageCount.get(field) || 0
fieldUsageCount(mappings, field) ==
    Cardinality({i \in DOMAIN mappings :
        /\ ~mappings[i].isMetadata
        /\ mappings[i].mappedName # ""
        /\ mappings[i].mappedName = field})

\* Array.from(fieldUsageCount.keys()), in insertion order
mappedFields(mappings) ==
    LET counted == SelectSeq(mappings,
                       LAMBDA m : ~m.isMetadata /\ m.mappedName # "")
        firsts == SelectSeq([i \in DOMAIN counted |->
                      IF \A j \in 1..(i - 1) :
                             counted[j].mappedName # counted[i].mappedName
                      THEN counted[i].mappedName
                      ELSE Undefined],
                      LAMBDA name : name # Undefined)
    IN  firsts

\* requiredApiFields.filter(field => !mappedFields.includes(field))
unmappedRequiredFields(mappings) ==
    SelectSeq(requiredApiFields,
              LAMBDA field : field \notin Range(mappedFields(mappings)))

\* the keys of fieldUsageCount with count > 1: the duplicate list of the view
viewDuplicatedFields(mappings) ==
    SelectSeq(mappedFields(mappings),
              LAMBDA field : fieldUsageCount(mappings, field) > 1)

----------------------------------------------------------------------------
(* Export gate and transform. *)

\* an export gate that skips the validity check
NoInvalidMappings(mappings) == <<>>

\* columnMappings.filter(mapping => !mapping.isValid)
invalidMappings(mappings) == SelectSeq(mappings, LAMBDA m : ~m.isValid)

\* columnMappings.filter(m => !m.isMetadata && m.isValid).map(m => m.mappedName)
mappedDtoFields(mappings) ==
    LET kept == SelectSeq(mappings, LAMBDA m : ~m.isMetadata /\ m.isValid)
    IN  [i \in DOMAIN kept |-> kept[i].mappedName]

\* an export gate that skips the check for missing fields
NoMissingFields(mappings) == <<>>

\* requiredApiFields.filter(field => !mappedDtoFields.includes(field))
missingFields(mappings) ==
    SelectSeq(requiredApiFields,
              LAMBDA field : field \notin Range(mappedDtoFields(mappings)))

NoDuplicateCheck(fields) == <<>>

\* the entries of dtoFieldCounts with count > 1, in insertion order
duplicatedFields(fields) ==
    LET firsts == {i \in DOMAIN fields :
                      \A j \in 1..(i - 1) : fields[j] # fields[i]}
        count(name) == Cardinality({i \in DOMAIN fields : fields[i] = name})
        keys == SelectSeq([i \in DOMAIN fields |->
                              IF i \in firsts THEN fields[i] ELSE Undefined],
                          LAMBDA name : name # Undefined)
    IN  SelectSeq(keys, LAMBDA name : count(name) > 1)

\* `temp-${index}`
\* ids that continue after the products already held
TempIdAfterProducts(index) == <<"temp", Len(productData) + index>>

TempId(index) == <<"temp", index>>

RECURSIVE ApplyMappings(_, _, _, _, _)
\* columnMappings.forEach(mapping => ...) from entry i on
ApplyMappings(row, mappings, i, newRow, metaDataObj) ==
    IF i > Len(mappings)
    THEN <<newRow, metaDataObj>>
    ELSE LET value == Get(row, mappings[i].originalName)
         IN  IF mappings[i].isMetadata
             THEN ApplyMappings(row, mappings, i + 1, newRow,
                      Put(metaDataObj, mappings[i].originalName, value))
             ELSE ApplyMappings(row, mappings, i + 1,
                      Put(newRow, mappings[i].mappedName, value), metaDataObj)

AlwaysAttachMetaData(row, index, mappings) ==
    LET built == ApplyMappings(row, mappings, 1,
                               Put(EmptyObject, "id", TempId(index)), EmptyObject)
    IN  Put(built[1], "metaData", built[2])

\* the body of csvData.map((row, index) => ...); index counts from 0
TransformRow(row, index, mappings) ==
    LET built == ApplyMappings(row, mappings, 1,
                               Put(EmptyObject, "id", TempId(index)), EmptyObject)
    IN  IF DOMAIN built[2] # {}
        THEN Put(built[1], "metaData", built[2])
        ELSE built[1]

transformedData(rows, mappings) ==
    [r \in DOMAIN rows |-> TransformRow(rows[r], r - 1, mappings)]

\* a callback whose closure holds no records
TimerWithoutData(kind, products, data) ==
    [kind |-> kind, products |-> products, data |-> <<>>]

Timer(kind, products, data) ==
    [kind |-> kind, products |-> products, data |-> data]

\* handleUploadToAPI, offered by the upload button once rows are loaded
HandleUploadToAPI ==
    /\ viewMode = "csvImport"
    /\ Len(csvData) > 0
    /\ IF invalidMappings(columnMappings) # <<>>
       THEN /\ toast' = showError(
                    "Please fix all column mapping issues before uploading", <<>>)
            /\ UNCHANGED timers
       ELSE IF missingFields(columnMappings) # <<>>
       THEN /\ toast' = showError("Missing required fields",
                                  missingFields(columnMappings))
            /\ UNCHANGED timers
       ELSE IF duplicatedFields(mappedDtoFields(columnMappings)) # <<>>
       THEN /\ toast' = showError("Duplicate mappings found for",
                            duplicatedFields(mappedDtoFields(columnMappings)))
            /\ UNCHANGED timers
       ELSE /\ Len(timers) < MaxTimers
            /\ Len(productData) + Len(csvData) <= MaxProducts
            /\ timers' = Append(timers,
                    Timer("upload", productData,
                          transformedData(csvData, columnMappings)))
            /\ UNCHANGED toast
    /\ UNCHANGED <<viewMode, productData, importVars, parsing,
                   pureVars, gridVars, dialogVars, now>>

----------------------------------------------------------------------------
(* Product list and delayed completions. *)

mockProducts ==
    << [id |-> <<"1">>, companyID |-> "COMP001", productTypeID |-> "PT001",
        companyName |-> "Acme Corp", productName |-> "Premium Widget",
        productDescription |-> "High-quality widget for professional use",
        productImage |-> "https://via.placeholder.com/150",
        globalProductCategory |-> "Electronics", netContent |-> 250,
        metaData |-> [weight |-> "1.5kg", color |-> "blue"]],
       [id |-> <<"2">>, companyID |-> "COMP002", productTypeID |-> "PT002",
        companyName |-> "Tech Solutions", productName |-> "Smart Device",
        productDescription |-> "IoT enabled smart device",
        productImage |-> "https://via.placeholder.com/150",
        globalProductCategory |-> "Technology", netContent |-> 500,
        metaData |-> [connectivity |-> "WiFi", battery |-> "10 hours"]] >>

\* the callback of the oldest pending setTimeout runs
TimerFires ==
    /\ timers # <<>>
    /\ timers' = Tail(timers)
    /\ IF Head(timers).kind = "fetch"
       THEN /\ productData' = mockProducts
            /\ toast' = showSuccess("Products loaded successfully", 0)
            /\ UNCHANGED viewMode
       ELSE /\ productData' = Head(timers).products \o Head(timers).data
            /\ viewMode' = "productGrid"
            /\ toast' = showSuccess("Successfully uploaded records!",
                                    Len(Head(timers).data))
    /\ UNCHANGED <<importVars, parsing, pureVars, gridVars, dialogVars, now>>

\* Date.now() at a call: time does not run backwards, and two calls can fall
\* into the same millisecond
Clock == now..MaxClock

\* what the add-product dialog hands to onSave
NewProduct ==
    [companyID |-> "COMP003", productTypeID |-> "PT003",
     companyName |-> "Nova", productName |-> "Gizmo",
     productDescription |-> "A gizmo", productImage |-> "",
     globalProductCategory |-> "Toys", netContent |-> 1]

HandleAddProduct(newProduct) ==
    /\ viewMode = "productGrid"
    /\ Len(productData) < MaxProducts
    /\ \E t \in Clock :
          /\ now' = t
          /\ productData' =
                 Append(productData, Put(newProduct, "id", <<"new", t>>))
    /\ toast' = showSuccess("Product added successfully", 0)
    /\ UNCHANGED <<viewMode, importVars, parsing, timers, pureVars, gridVars,
                   dialogVars>>

\* an update that replaces only the first product with the id
UpdateFirstMatch(products, id, updatedData) ==
    [i \in DOMAIN products |->
        IF /\ products[i]["id"] = id
           /\ \A j \in 1..(i - 1) : products[j]["id"] # id
        THEN updatedData
        ELSE products[i]]

\* productData.map(product => product.id === id ? updatedData : product)
UpdatedProducts(products, id, updatedData) ==
    [i \in DOMAIN products |->
        IF products[i]["id"] = id THEN updatedData ELSE products[i]]

HandleProductUpdate(id, updatedData) ==
    /\ viewMode = "productGrid"
    /\ productData' = UpdatedProducts(productData, id, updatedData)
    /\ toast' = showSuccess("Product updated successfully", 0)
    /\ UNCHANGED <<viewMode, importVars, parsing, timers, pureVars, gridVars,
                   dialogVars, now>>

\* productData.filter(product => product.id !== id)
ProductsWithout(products, id) ==
    SelectSeq(products, LAMBDA product : product["id"] # id)

HandleProductDelete(id) ==
    /\ productData' = ProductsWithout(productData, id)
    /\ toast' = showSuccess("Product deleted successfully", 0)

\* the delete button of a row of the product grid
HandleDelete(index) ==
    /\ viewMode = "productGrid"
    /\ ~confirmDialog.open
    /\ ~productDialog.open
    /\ index \in DOMAIN productData
    /\ confirmDialog' = [open |-> TRUE, type |-> "delete",
                         itemId |-> productData[index]["id"]]
    /\ UNCHANGED <<viewMode, productData, importVars, toast, parsing, timers,
                   pureVars, gridVars, editDialog, editFormData, now>>

\* a confirmation that takes any id, the empty one too
ItemIdAlwaysGiven(itemId) == TRUE

\* if (confirmDialog.itemId)
ItemIdGiven(itemId) == itemId # NoId

HandleConfirmDelete ==
    /\ viewMode = "productGrid"
    /\ confirmDialog.open
    /\ IF ItemIdGiven(confirmDialog.itemId)
       THEN HandleProductDelete(confirmDialog.itemId)
       ELSE UNCHANGED <<productData, toast>>
    /\ confirmDialog' = [open |-> FALSE, type |-> Null, itemId |-> NoId]
    /\ UNCHANGED <<viewMode, importVars, parsing, timers, pureVars, gridVars,
                   editDialog, editFormData, now>>

\* the Cancel button and onClose of the confirmation dialog
CancelDelete ==
    /\ viewMode = "productGrid"
    /\ confirmDialog.open
    /\ confirmDialog' = [open |-> FALSE, type |-> Null, itemId |-> NoId]
    /\ UNCHANGED <<viewMode, productData, importVars, toast, parsing, timers,
                   pureVars, gridVars, editDialog, editFormData, now>>

\* the Import CSV Data button of the product view
OpenCsvImport ==
    /\ viewMode = "productGrid"
    /\ viewMode' = "csvImport"
    /\ UNCHANGED <<productData, importVars, toast, parsing, timers,
                   pureVars, gridVars, dialogVars, now>>

\* the Back to Products button of the import view
BackToProducts ==
    /\ viewMode = "csvImport"
    /\ viewMode' = "productGrid"
    /\ UNCHANGED <<productData, importVars, toast, parsing, timers,
                   pureVars, gridVars, dialogVars, now>>

----------------------------------------------------------------------------
(* Product images and the product edit dialog. The grid and its dialog     *)
(* stay mounted while the product view is shown.                           *)

\* the files offered to an image input: name and MIME type
ImageFiles ==
    {[name |-> "pic.png", type |-> "image/png"],
     [name |-> "notes.pdf", type |-> "application/pdf"]}

\* file.type.startsWith('image/')
IsImage(file) == file.type \in {"image/png"}

\* URL.createObjectURL(file)
CreateObjectURL(file) == "blob:" \o file.name

\* an image replacement that keeps only the id of the product
ImageOnly(product, url) == [id |-> product["id"], productImage |-> url]

\* { ...product, productImage: mockImageUrl }
WithImage(product, url) == Put(product, "productImage", url)

\* handleImageUpload of the container
HandleImageUpload(id, file) ==
    /\ viewMode = "productGrid"
    /\ productData' =
           [i \in DOMAIN productData |->
               IF productData[i]["id"] = id
               THEN WithImage(productData[i], CreateObjectURL(file))
               ELSE productData[i]]
    /\ toast' = showSuccess("Image uploaded successfully", 0)
    /\ UNCHANGED <<viewMode, importVars, parsing, timers, pureVars, gridVars,
                   dialogVars, now>>

\* the image input of a row of the product grid
HandleRowImageUpload(index, file) ==
    /\ ~productDialog.open
    /\ ~confirmDialog.open
    /\ index \in DOMAIN productData
    /\ IsImage(file)
    /\ HandleImageUpload(productData[index]["id"], file)

\* the initial form of EditProductDialog
BlankForm ==
    [id |-> NoId, companyID |-> "", productTypeID |-> "", companyName |-> "",
     productName |-> "", productDescription |-> "", productImage |-> "",
     globalProductCategory |-> "", netContent |-> 0]

\* the edit button of a row of the product grid, and the effect that copies
\* the product into the form when the dialog's product changes
HandleEdit(index) ==
    /\ viewMode = "productGrid"
    /\ ~productDialog.open
    /\ ~confirmDialog.open
    /\ index \in DOMAIN productData
    /\ productDialog' = [open |-> TRUE, product |-> <<productData[index]>>]
    /\ formData' = productData[index]
    /\ UNCHANGED <<viewMode, productData, importVars, toast, parsing, timers,
                   pureVars, dialogVars, now, isUploading, uploads>>

\* handleInputChange of EditProductDialog
HandleInputChange(field, value) ==
    /\ viewMode = "productGrid"
    /\ productDialog.open
    /\ formData' = Put(formData, field, value)
    /\ UNCHANGED <<viewMode, productData, importVars, toast, parsing, timers,
                   pureVars, dialogVars, now, productDialog, isUploading,
                   uploads>>

\* `${timestamp}-${file.name}`
StampedName(timestamp, name) == ToString(timestamp) \o "-" \o name

\* handleInputChange('productImage', fileName) after the awaits
WritesFileName(form, upload) == Put(form, "productImage", upload.fileName)

\* handleImageUpload of EditProductDialog up to its first await; the image
\* input is disabled while an upload is in flight
StartImageUpload(file) ==
    /\ viewMode = "productGrid"
    /\ productDialog.open
    /\ ~isUploading
    /\ formData["id"] # NoId
    /\ IF ~IsImage(file)
       THEN UNCHANGED <<isUploading, uploads, now>>
       ELSE /\ isUploading' = TRUE
            /\ \E timestamp \in Clock :
                  /\ now' = timestamp
                  /\ uploads' = Append(uploads,
                         [forId |-> formData["id"],
                          fileName |-> StampedName(timestamp, file.name)])
    /\ UNCHANGED <<viewMode, productData, importVars, toast, parsing, timers,
                   pureVars, dialogVars, productDialog, formData>>

\* handleImageUpload of EditProductDialog after getSignedUrl and uploadToS3
\* have resolved
ImageUploadCompletes ==
    /\ viewMode = "productGrid"
    /\ uploads # <<>>
    /\ formData' = WritesFileName(formData, Head(uploads))
    /\ isUploading' = FALSE
    /\ uploads' = Tail(uploads)
    /\ UNCHANGED <<viewMode, productData, importVars, toast, parsing, timers,
                   pureVars, dialogVars, now, productDialog>>

\* the Cancel button and onClose of EditProductDialog
CloseProductDialog ==
    /\ viewMode = "productGrid"
    /\ productDialog.open
    /\ productDialog' = [open |-> FALSE, product |-> NoRow]
    /\ UNCHANGED <<viewMode, productData, importVars, toast, parsing, timers,
                   pureVars, dialogVars, now, formData, isUploading, uploads>>

\* isFormValid of EditProductDialog
IsFormValid(form) ==
    /\ form["companyID"] # ""
    /\ form["productTypeID"] # ""
    /\ form["companyName"] # ""
    /\ form["productName"] # ""
    /\ form["productDescription"] # ""
    /\ form["globalProductCategory"] # ""
    /\ form["netContent"] > 0

\* the Save button of EditProductDialog: handleSave, and handleEditSave of
\* the grid with handleProductUpdate of the container
HandleEditSave ==
    /\ viewMode = "productGrid"
    /\ productDialog.open
    /\ IsFormValid(formData)
    /\ ~isUploading
    /\ IF formData["id"] # NoId
       THEN /\ productData' =
                   UpdatedProducts(productData, formData["id"], formData)
            /\ toast' = showSuccess("Product updated successfully", 0)
       ELSE UNCHANGED <<productData, toast>>
    /\ productDialog' = [open |-> FALSE, product |-> NoRow]
    /\ UNCHANGED <<viewMode, importVars, parsing, timers, pureVars,
                   dialogVars, now, formData, isUploading, uploads>>

\* what the user types into the product edit dialog
FormEdits == {<<"productName", "Renamed">>}

NextProductDialog ==
    \/ TimerFires
    \/ \E index \in DOMAIN productData :
          \E file \in ImageFiles : HandleRowImageUpload(index, file)
    \/ \E index \in DOMAIN productData : HandleEdit(index)
    \/ \E edit \in FormEdits : HandleInputChange(edit[1], edit[2])
    \/ \E file \in ImageFiles : StartImageUpload(file)
    \/ ImageUploadCompletes
    \/ CloseProductDialog
    \/ HandleEditSave

----------------------------------------------------------------------------
(* The container. *)

\* the initial state of the dialogs and of the clock
DialogsClosed ==
    /\ editDialog = [open |-> FALSE, rowData |-> NoRow, rowIndex |-> NoRow]
    /\ editFormData = EmptyObject
    /\ confirmDialog = [open |-> FALSE, type |-> Null, itemId |-> NoId]
    /\ now = 0
    /\ productDialog = [open |-> FALSE, product |-> NoRow]
    /\ formData = BlankForm
    /\ isUploading = FALSE
    /\ uploads = <<>>

Init ==
    /\ DialogsClosed
    /\ viewMode = "productGrid"
    /\ productData = <<>>
    /\ csvData = <<>>
    /\ originalColumns = <<>>
    /\ columnMappings = <<>>
    /\ toast = NoToast
    /\ parsing = {}
    /\ timers = <<Timer("fetch", <<>>, mockProducts)>>
    /\ vIn = <<>>
    /\ vOut = [done |-> FALSE, list |-> <<>>]

\* The handlers, with the file chooser offering the files of `offered`.
NextOn(offered) ==
    \/ \E f \in offered : HandleFileUpload(f)
    \/ \E f \in offered : ParseComplete(f)
    \/ \E index \in DOMAIN columnMappings :
          \E name \in Options(columnMappings[index].originalName) :
              /\ UserPicks(columnMappings, index, name)
              /\ HandleColumnMappingChange(index, name)
    \/ HandleUploadToAPI
    \/ TimerFires
    \/ OpenCsvImport
    \/ BackToProducts

\* Sessions that import files with a column for every required field.
ExportFiles ==
    {f \in DOMAIN Files : Files[f] \in {FullFile, ExactFile, NotCsvFile}}

\* Sessions that import the file of the seven-header scenario.
ScenarioFiles == {f \in DOMAIN Files : Files[f] \in {ScenarioFile, NotCsvFile}}

\* Sessions that are offered every kind of rejected file.
IngestionFiles ==
    {f \in DOMAIN Files : Files[f] \notin {FullFile, ExactFile}}

Next == NextOn(ExportFiles)

Spec == Init /\ [][Next]_vars

NextScenario == NextOn(ScenarioFiles)

SpecScenario == Init /\ [][NextScenario]_vars

NextIngestion == NextOn(IngestionFiles)

SpecIngestion == Init /\ [][NextIngestion]_vars

----------------------------------------------------------------------------
(* Repeated export: sessions that start with a file loaded, some of its    *)
(* rows deleted, cells of its first row edited and every column mapped,    *)
(* and in which the rows and the mappings are then left alone.             *)

\* every column mapped to the field it denotes, the spare column to metaData
MappedOneToOne(headers) ==
    [i \in DOMAIN headers |->
        LET name == IF Cardinality(Denotes(headers[i])) = 1
                    THEN CHOOSE n \in Denotes(headers[i]) : TRUE
                    ELSE "metaData"
        IN  [originalName |-> headers[i], mappedName |-> name,
             isValid |-> TRUE, isMetadata |-> (name = "metaData"),
             errorMessage |-> NoError]]

\* the rows `rows` with the cells of the first row under `edited` replaced
EditedRows(rows, edited) ==
    [r \in DOMAIN rows |->
        IF r = 1
        THEN [h \in DOMAIN rows[r] |->
                 IF h \in edited THEN "edited" ELSE rows[r][h]]
        ELSE rows[r]]

InitReexport ==
    /\ DialogsClosed
    /\ viewMode = "csvImport"
    /\ productData = mockProducts
    /\ toast = NoToast
    /\ parsing = {}
    /\ timers = <<>>
    /\ vIn = <<>>
    /\ vOut = [done |-> FALSE, list |-> <<>>]
    /\ \E f \in ExportFiles :
          /\ Files[f].type # "text/plain"
          /\ originalColumns = Head(Files[f].data)
          /\ columnMappings = MappedOneToOne(Head(Files[f].data))
          /\ \E kept \in 1..Len(csvObjects(Files[f].data)) :
                \E edited \in SUBSET Range(Head(Files[f].data)) :
                    csvData = EditedRows(
                        SubSeq(csvObjects(Files[f].data), 1, kept), edited)

NextReexport ==
    \/ HandleUploadToAPI
    \/ TimerFires
    \/ OpenCsvImport
    \/ BackToProducts

SpecReexport == InitReexport /\ [][NextReexport]_vars

----------------------------------------------------------------------------
(* Row editing: sessions that start with the nine-column file loaded and   *)
(* every column mapped, in which the user edits the spare column's         *)
(* mapping, edits and deletes rows, and exports.                           *)

\* what the user types into the edit dialog: a column and its new value
FieldEdits == {<<"Name", "edited">>}

InitRows ==
    /\ DialogsClosed
    /\ viewMode = "csvImport"
    /\ productData = mockProducts
    /\ toast = NoToast
    /\ parsing = {}
    /\ timers = <<>>
    /\ vIn = <<>>
    /\ vOut = [done |-> FALSE, list |-> <<>>]
    /\ originalColumns = Head(FullFile.data)
    /\ columnMappings = MappedOneToOne(Head(FullFile.data))
    /\ csvData = csvObjects(FullFile.data)

NextRows ==
    \/ \E index \in DOMAIN columnMappings :
          \E name \in Options(columnMappings[index].originalName) :
              /\ Cardinality(Denotes(columnMappings[index].originalName)) > 1
              /\ HandleColumnMappingChange(index, name)
    \/ \E index \in DOMAIN csvData : HandleEditRow(index)
    \/ \E edit \in FieldEdits : HandleFieldChange(edit[1], edit[2])
    \/ HandleSaveEdit
    \/ HandleCloseEdit
    \/ \E index \in DOMAIN csvData : HandleDeleteRow(index)
    \/ HandleUploadToAPI
    \/ TimerFires
    \/ OpenCsvImport
    \/ BackToProducts

SpecRows == InitRows /\ [][NextRows]_vars

----------------------------------------------------------------------------
(* Import and product management together: sessions that start in the     *)
(* import view with a file loaded, its last rows deleted or not, and every *)
(* column mapped, in which the user exports, switches views, and adds products while an   *)
(* upload is pending.                                                      *)

InitSession ==
    /\ DialogsClosed
    /\ viewMode = "csvImport"
    /\ productData = mockProducts
    /\ toast = NoToast
    /\ parsing = {}
    /\ timers = <<>>
    /\ vIn = <<>>
    /\ vOut = [done |-> FALSE, list |-> <<>>]
    /\ \E file \in {ExactFile, FullFile} :
          /\ originalColumns = Head(file.data)
          /\ columnMappings = MappedOneToOne(Head(file.data))
          /\ \E kept \in 1..Len(csvObjects(file.data)) :
                csvData = SubSeq(csvObjects(file.data), 1, kept)

NextSession ==
    \/ HandleUploadToAPI
    \/ TimerFires
    \/ OpenCsvImport
    \/ BackToProducts
    \/ HandleAddProduct(NewProduct)

SpecSession == InitSession /\ [][NextSession]_vars

\* The event loop runs the callback of every setTimeout that is due, and
\* no handler clears a timer.
SpecSessionFair == SpecSession /\ WF_vars(TimerFires)

\* Sessions that load files and edit rows: a file is chosen while no dialog
\* is open, and its parse completes whenever the parser is done.
ReloadFiles ==
    {f \in DOMAIN Files :
        Files[f] \in {ScenarioFile, DupHeaderFile, BlankRowsFile}}

NextRowReload ==
    \/ \E f \in ReloadFiles : ~editDialog.open /\ HandleFileUpload(f)
    \/ \E f \in ReloadFiles : ParseComplete(f)
    \/ \E index \in DOMAIN csvData : HandleEditRow(index)
    \/ \E edit \in FieldEdits : HandleFieldChange(edit[1], edit[2])
    \/ HandleSaveEdit
    \/ HandleCloseEdit
    \/ \E index \in DOMAIN csvData : HandleDeleteRow(index)
    \/ TimerFires
    \/ OpenCsvImport
    \/ BackToProducts

SpecRowReload == Init /\ [][NextRowReload]_vars

----------------------------------------------------------------------------
(* Product management: sessions that stay in the product view, where the   *)
(* user adds, updates and deletes products.                                *)

\* an id that no product has
AbsentId == <<"9">>

\* the record that the edit form holds after the name was changed
Edited(product) == Put(product, "productName", "Edited")

\* The records that a caller supplies for the id: an edited copy of a
\* product that has the id, such a copy with its id emptied, and for an id
\* that no product has an edited record carrying that id.
UpdatesFor(id) ==
    IF \E i \in DOMAIN productData : productData[i]["id"] = id
    THEN UNION {{Edited(productData[i]),
                 Put(Edited(productData[i]), "id", NoId)} :
                    i \in {j \in DOMAIN productData :
                               productData[j]["id"] = id}}
    ELSE {Put(Edited(NewProduct), "id", id)}

NextProducts ==
    \/ TimerFires
    \/ HandleAddProduct(NewProduct)
    \/ \E id \in {productData[i]["id"] : i \in DOMAIN productData}
                  \cup {AbsentId} :
          \E updatedData \in UpdatesFor(id) :
              HandleProductUpdate(id, updatedData)
    \/ \E index \in DOMAIN productData : HandleDelete(index)
    \/ HandleConfirmDelete
    \/ CancelDelete

SpecProducts == Init /\ [][NextProducts]_vars

\* Sessions in the product view that edit products in the dialog and upload
\* images.
SpecProductDialog == Init /\ [][NextProductDialog]_vars

----------------------------------------------------------------------------
(* The mapping dropdown: sessions in which every mapping change is a pick  *)
(* from the Select of the mapping view, on files of two columns.           *)

\* a dropdown that disables no option
NoOptionDisabled(mappings, index, field) == FALSE

\* disabled={fieldUsageCount.get(field) > 0 && mapping.mappedName !== field}
OptionDisabled(mappings, index, field) ==
    /\ fieldUsageCount(mappings, field) > 0
    /\ mappings[index].mappedName # field

\* the MenuItems of the Select that can be picked for the column
OptionsEnabled(mappings, index) ==
    {"metaData"} \cup
        {field \in Range(requiredApiFields) :
            ~OptionDisabled(mappings, index, field)}

\* onChange of the Select
PickOption(index, name) ==
    /\ index \in DOMAIN columnMappings
    /\ name \in OptionsEnabled(columnMappings, index)
    /\ HandleColumnMappingChange(index, name)

DropdownFiles ==
    {f \in DOMAIN Files :
        Files[f] \in {DupHeaderFile, BlankRowsFile, BrokenFile}}

NextDropdown ==
    \/ \E f \in DropdownFiles : HandleFileUpload(f)
    \/ \E f \in DropdownFiles : ParseComplete(f)
    \/ \E index \in DOMAIN columnMappings :
          \E name \in {"metaData"} \cup Range(requiredApiFields) :
              PickOption(index, name)
    \/ HandleUploadToAPI
    \/ TimerFires
    \/ OpenCsvImport
    \/ BackToProducts

SpecDropdown == Init /\ [][NextDropdown]_vars

----------------------------------------------------------------------------
(* The validator on its own: every list of up to MaxLen entries over the   *)
(* names below, with every combination of flags on input.                  *)

TestHeaders == <<"A", "B", "C", "D", "E">>

TestNames == {"", " ", "metaData", "companyID", "productTypeID", "companyid"}

\* the list of n entries with the names and flags that `choice` gives
TestList(n, choice) ==
    [i \in 1..n |->
        [originalName |-> TestHeaders[i], mappedName |-> choice[i][1],
         isValid |-> choice[i][2], isMetadata |-> choice[i][3],
         errorMessage |-> NoError]]

InitValidator ==
    /\ DialogsClosed
    /\ viewMode = "productGrid"
    /\ productData = <<>>
    /\ csvData = <<>>
    /\ originalColumns = <<>>
    /\ columnMappings = <<>>
    /\ toast = NoToast
    /\ parsing = {}
    /\ timers = <<>>
    /\ \E n \in 0..MaxLen :
          \E choice \in [1..n -> TestNames \X BOOLEAN \X BOOLEAN] :
              vIn = TestList(n, choice)
    /\ vOut = [done |-> FALSE, list |-> <<>>]

\* a call of validateAllColumnMappings(vIn)
Validate ==
    /\ ~vOut.done
    /\ vOut' = [done |-> TRUE, list |-> validateAllColumnMappings(vIn)]
    /\ UNCHANGED <<viewMode, productData, importVars, toast, parsing, timers,
                   vIn, gridVars, dialogVars, now>>

NextValidator == Validate

SpecValidator == InitValidator /\ [][NextValidator]_vars

----------------------------------------------------------------------------
(* Properties. *)

\* the columns of `mappings` whose mappedName is `field`
ColumnsMappedTo(mappings, field) ==
    {i \in DOMAIN mappings : mappings[i].mappedName = field}

\* C1: in the container, whenever two or more columns have the same
\* required field as mappedName, every one of them is marked invalid with
\* the duplicate-mapping error naming that field.
C1_DuplicatesAllFlagged ==
    \A field \in Range(requiredApiFields) :
        Cardinality(ColumnsMappedTo(columnMappings, field)) >= 2 =>
            \A i \in ColumnsMappedTo(columnMappings, field) :
                /\ ~columnMappings[i].isValid
                /\ columnMappings[i].errorMessage = AlreadyMapped(field)

\* the entries of `mappings` that carry the duplicate-mapping error for `field`
FlaggedDuplicate(mappings, field) ==
    {i \in DOMAIN mappings : mappings[i].errorMessage = AlreadyMapped(field)}

\* C2: for every list handed to the validator and every required field F,
\* if k > 1 entries have mappedName F then exactly k entries of the result
\* carry the duplicate-mapping error for F, and if exactly one has it then
\* no entry of the result carries that error.
C2_DuplicateCountMatches ==
    vOut.done =>
        \A field \in Range(requiredApiFields) :
            LET k == Cardinality(ColumnsMappedTo(vIn, field))
                flagged == Cardinality(FlaggedDuplicate(vOut.list, field))
            IN  /\ k > 1 => flagged = k
                /\ k = 1 => flagged = 0

\* C5: every entry whose mappedName is the metadata sentinel comes out of
\* the validator valid, flagged as metadata and without an error message,
\* whatever the other entries and its own flags on input.
C5_MetadataAlwaysValid ==
    vOut.done =>
        \A i \in DOMAIN vIn :
            vIn[i].mappedName = "metaData" =>
                /\ vOut.list[i].isValid
                /\ vOut.list[i].isMetadata
                /\ vOut.list[i].errorMessage = NoError

\* a validated list with a metadata entry that came in marked invalid and
\* not metadata, beside two entries that compete for one field
C5_Witness ==
    /\ vOut.done
    /\ \E i, j, k \in DOMAIN vIn :
          /\ vIn[i].mappedName = "metaData"
          /\ ~vIn[i].isValid
          /\ ~vIn[i].isMetadata
          /\ vOut.list[i].isValid
          /\ j # k
          /\ vIn[j].mappedName = "companyID"
          /\ vIn[k].mappedName = "companyID"
          /\ ~vOut.list[j].isValid

\* a step in which handleUploadToAPI passed its checks and scheduled the upload
UploadScheduled == Len(timers') = Len(timers) + 1

\* the records handed to the upload that such a step scheduled
Emitted == timers'[Len(timers')].data

UploadErrors ==
    {"Please fix all column mapping issues before uploading",
     "Missing required fields", "Duplicate mappings found for"}

\* a step in which handleUploadToAPI refused the export
UploadRefused ==
    /\ toast' # toast
    /\ toast'.severity = "error"
    /\ toast'.text \in UploadErrors
    /\ timers' = timers

\* every required field is the mappedName of exactly one column, and that
\* column is not flagged as metadata
RequiredMappedOnce(mappings) ==
    \A field \in Range(requiredApiFields) :
        /\ Cardinality(ColumnsMappedTo(mappings, field)) = 1
        /\ \A i \in ColumnsMappedTo(mappings, field) : ~mappings[i].isMetadata

\* C3: handleUploadToAPI schedules the upload of records only if, in the
\* mapping list at the time of the call, every required field is the
\* mappedName of exactly one non-metadata column; with two columns mapped
\* to one field nothing is scheduled, even if both are marked valid.
C3_ExportOnlyWhenMappedOnce ==
    [][UploadScheduled => RequiredMappedOnce(columnMappings)]_vars

\* an upload was scheduled with the records of the loaded rows
C3_Witness ==
    /\ timers # <<>>
    /\ Head(timers).kind = "upload"
    /\ Len(Head(timers).data) = Len(csvData)
    /\ RequiredMappedOnce(columnMappings)

\* the required fields that no column has as mappedName, in schema order
UnmappedRequired(mappings) ==
    SelectSeq(requiredApiFields,
              LAMBDA field : ColumnsMappedTo(mappings, field) = {})

\* C4: in every state where at least one required field is unmapped, a
\* call of handleUploadToAPI schedules nothing and reports an error that
\* names every missing required field.
C4_MissingFieldsAllNamed ==
    [][(UploadScheduled \/ UploadRefused)
           /\ UnmappedRequired(columnMappings) # <<>> =>
        /\ ~UploadScheduled
        /\ toast' = showError("Missing required fields",
                              UnmappedRequired(columnMappings))]_vars

\* C6: whenever export passes its checks, the output has one record per
\* row in row order; each column's value is under mappedName, or under
\* metaData[originalName] for a metadata column; and a record has a
\* metaData sub-object exactly if some column is routed to the sentinel.
C6_TransformShape ==
    [][UploadScheduled =>
        /\ Len(Emitted) = Len(csvData)
        /\ \A r \in DOMAIN csvData :
              /\ Emitted[r]["id"] = TempId(r - 1)
              /\ \A i \in DOMAIN columnMappings :
                    LET m == columnMappings[i]
                        value == Get(csvData[r], m.originalName)
                    IN  IF m.mappedName = "metaData"
                        THEN /\ "metaData" \in DOMAIN Emitted[r]
                             /\ m.originalName \in DOMAIN Emitted[r]["metaData"]
                             /\ Emitted[r]["metaData"][m.originalName] = value
                        ELSE /\ m.mappedName \in DOMAIN Emitted[r]
                             /\ Emitted[r][m.mappedName] = value
              /\ "metaData" \in DOMAIN Emitted[r] <=>
                    ColumnsMappedTo(columnMappings, "metaData") # {}]_vars

\* an upload is pending whose two records carry the spare column as metaData
C6_Witness ==
    /\ timers # <<>>
    /\ Head(timers).kind = "upload"
    /\ Len(Head(timers).data) = 2
    /\ Head(timers).data[1]["metaData"] = [Extra |-> "note"]
    /\ Head(timers).data[2]["companyName"] = "Bolt"
    /\ Head(timers).data[2]["productImage"] = ""

\* the mapping names of the seven-header scenario, in column order
ScenarioNames ==
    <<"companyID", "productTypeID", "productName", "productDescription",
      "globalProductCategory", "netContent", "metaData">>

\* the scenario's file is loaded with its single row, and its columns are
\* mapped one-to-one with the spare column routed to the metadata sentinel
ScenarioMapped ==
    /\ originalColumns = Head(ScenarioFile.data)
    /\ csvData = csvObjects(ScenarioFile.data)
    /\ Len(columnMappings) = Len(ScenarioNames)
    /\ \A i \in DOMAIN columnMappings :
          columnMappings[i].mappedName = ScenarioNames[i]

\* C7 as stated: exporting the scenario's row yields exactly one record,
\* whose metaData is {Extra: note}, and reports no missing-field error.
C7_ScenarioExports ==
    [][ScenarioMapped /\ (UploadScheduled \/ UploadRefused) =>
        /\ UploadScheduled
        /\ Len(Emitted) = 1
        /\ Emitted[1]["metaData"] = [Extra |-> "note"]
        /\ toast'.text # "Missing required fields"]_vars

\* C7 as amended: exporting the scenario's row yields no record, and the
\* error reported names exactly the two required fields the scenario
\* leaves unmapped, companyName and productImage.
C7_ScenarioMissesTwoFields ==
    [][ScenarioMapped /\ (UploadScheduled \/ UploadRefused) =>
        /\ ~UploadScheduled
        /\ toast' = showError("Missing required fields",
                              <<"companyName", "productImage">>)]_vars

\* the scenario was exported and refused for its two missing fields
C7_Witness ==
    /\ ScenarioMapped
    /\ \A i \in DOMAIN columnMappings : columnMappings[i].isValid
    /\ toast = showError("Missing required fields",
                         <<"companyName", "productImage">>)
    /\ \A i \in DOMAIN timers : timers[i].kind # "upload"
    /\ \A i \in DOMAIN productData : productData[i] \in Range(mockProducts)

\* the files whose parse completed in this step
Completed == parsing \ parsing'

\* the header line and the data rows that are not entirely blank cells
LogicalLines(data) ==
    IF data = <<>> THEN <<>>
    ELSE <<Head(data)>> \o SelectSeq(Tail(data), NonBlankRow)

\* C8: a parsed file in which fewer than two logical lines remain once the
\* rows of blank cells are dropped is rejected with an error and produces
\* no rows and no mappings.
C8_BlankRowsRejected ==
    [][\A f \in Completed :
          Files[f].errors = 0 /\ Len(LogicalLines(Files[f].data)) < 2 =>
              /\ toast'.severity = "error"
              /\ UNCHANGED <<csvData, columnMappings>>]_vars

TooFewRowsError ==
    showError("CSV file must contain header and at least one data row", <<>>)

\* C9: ingesting a CSV that has only a header row reports an error and
\* changes neither the row list nor the mapping list, so from the empty
\* initial state both are empty afterwards.
C9_HeaderOnlyRejected ==
    [][\A f \in Completed :
          Files[f].errors = 0 /\ Len(Files[f].data) = 1 =>
              /\ toast' = TooFewRowsError
              /\ UNCHANGED <<csvData, columnMappings>>
              /\ (csvData = <<>> /\ columnMappings = <<>> =>
                      csvData' = <<>> /\ columnMappings' = <<>>)]_vars

\* the header-only file was rejected in a session that had loaded nothing
C9_Witness ==
    /\ toast = TooFewRowsError
    /\ parsing = {}
    /\ csvData = <<>>
    /\ columnMappings = <<>>
    /\ originalColumns = <<>>

IngestionErrors ==
    {"Please upload a valid CSV file", "Error parsing CSV file",
     "CSV file must contain header and at least one data row"}

\* a step in which an ingestion attempt failed
IngestionFailed ==
    /\ toast'.severity = "error"
    /\ toast'.text \in IngestionErrors
    /\ toast' # toast \/ parsing' # parsing

\* C10: when ingestion fails (not a CSV by MIME type and extension, parser
\* errors, too few rows), the row list, the header list and the mapping
\* list are exactly what they were before the attempt.
C10_FailedIngestionKeepsState ==
    [][IngestionFailed => UNCHANGED importVars]_vars

\* a parse error was reported while rows and edited mappings were loaded
C10_Witness ==
    /\ toast = showError("Error parsing CSV file", <<>>)
    /\ csvData # <<>>
    /\ \E i \in DOMAIN columnMappings :
          columnMappings[i].mappedName # "metaData"

\* a step in which the parse of a file completed and the file was loaded
FileLoaded ==
    /\ Completed # {}
    /\ toast'.text = "Successfully loaded rows"

\* the entry a freshly loaded column is seeded with
SeededEntry(header) ==
    [originalName |-> header, mappedName |-> "metaData", isValid |-> TRUE,
     isMetadata |-> TRUE, errorMessage |-> NoError]

\* C11: after a successful file load the mapping list has exactly one entry
\* per header of the new file, in file column order, each seeded to the
\* metadata sentinel and valid; no mapping of the file loaded before survives.
C11_LoadSeedsMetadata ==
    [][FileLoaded =>
        \A f \in Completed :
            /\ Len(columnMappings') = Len(Head(Files[f].data))
            /\ \A i \in DOMAIN columnMappings' :
                  columnMappings'[i] = SeededEntry(Head(Files[f].data)[i])]_vars

\* the two-column file was loaded and each of its columns is seeded
C11_Witness ==
    /\ toast.text = "Successfully loaded rows"
    /\ originalColumns = Head(BlankRowsFile.data)
    /\ columnMappings = <<SeededEntry("CoID"), SeededEntry("Extra")>>
    /\ parsing = {}

\* C12: in every reachable state the originalName values of the mapping
\* list are pairwise distinct and in the order of the file's header columns.
C12_OriginalNamesUnique ==
    /\ \A i, j \in DOMAIN columnMappings :
          columnMappings[i].originalName = columnMappings[j].originalName
              => i = j
    /\ Len(columnMappings) = Len(originalColumns)
    /\ \A i \in DOMAIN columnMappings :
          columnMappings[i].originalName = originalColumns[i]

\* a step in which the callback of a scheduled upload ran
UploadCommitted ==
    /\ timers # <<>>
    /\ Head(timers).kind = "upload"
    /\ timers' = Tail(timers)

\* C13: once an import is committed (the simulated upload completes and the
\* records are appended to the product list) the session's mapping list and
\* row list are empty.
C13_CommitDiscardsSession ==
    [][UploadCommitted => csvData' = <<>> /\ columnMappings' = <<>>]_vars

\* the fields of a ColumnMapping
MappingFields ==
    {"originalName", "mappedName", "isValid", "isMetadata", "errorMessage"}

\* C16: the validator returns a list of the same length and order as its
\* input in which every entry keeps its originalName and mappedName, every
\* entry is fully formed, and the list passed in is left as it was.
C16_ValidatorFrame ==
    [][~vOut.done /\ vOut'.done =>
        /\ vIn' = vIn
        /\ Len(vOut'.list) = Len(vIn)
        /\ \A i \in DOMAIN vIn :
              /\ DOMAIN vOut'.list[i] = MappingFields
              /\ vOut'.list[i].originalName = vIn[i].originalName
              /\ vOut'.list[i].mappedName = vIn[i].mappedName
              /\ vOut'.list[i].isValid \in BOOLEAN
              /\ vOut'.list[i].isMetadata \in BOOLEAN]_vars

\* a validated list of MaxLen entries with a whitespace name, a blank name
\* and an unrecognized name, whose flags the validator recomputed
C16_Witness ==
    /\ vOut.done
    /\ Len(vIn) = MaxLen
    /\ \E i, j, k \in DOMAIN vIn :
          /\ vOut.list[i].mappedName = " "
          /\ vOut.list[j].mappedName = ""
          /\ vOut.list[k].mappedName = "companyid"
          /\ vIn[k].isValid /\ ~vOut.list[k].isValid

\* the list `mappings` with its columns rearranged by the permutation p
Permuted(mappings, p) == [k \in DOMAIN mappings |-> mappings[p[k]]]

\* the three outputs of the validator for one entry
Verdict(mapping) ==
    <<mapping.isValid, mapping.isMetadata, mapping.errorMessage>>

\* C17: validation is order-independent: for every permutation of the
\* columns of a list, validating the permuted list gives each column the
\* same isValid, isMetadata and errorMessage as validating the list itself.
C17_OrderIndependent ==
    vOut.done =>
        \A p \in Permutations(DOMAIN vIn) :
            \A k \in DOMAIN vIn :
                Verdict(validateAllColumnMappings(Permuted(vIn, p))[k])
                    = Verdict(vOut.list[p[k]])

\* a validated list in which two columns that are counted compete for one
\* field, so that both are flagged whichever comes first
C17_Witness ==
    /\ vOut.done
    /\ \E i, j \in DOMAIN vIn :
          /\ i < j
          /\ vIn[i].mappedName = "companyID" /\ ~vIn[i].isMetadata
          /\ vIn[j].mappedName = "companyID" /\ ~vIn[j].isMetadata
          /\ vOut.list[i].errorMessage = AlreadyMapped("companyID")
          /\ vOut.list[j].errorMessage = AlreadyMapped("companyID")

\* the names that are neither blank, nor the sentinel, nor a required field
Unrecognized(name) ==
    /\ name \notin {"", " "}
    /\ name # "metaData"
    /\ \A i \in DOMAIN requiredApiFields : requiredApiFields[i] # name

\* C18: an entry whose mappedName is not blank, not the metadata sentinel
\* and not exactly a name of the required-field list comes out invalid with
\* the error that names the value; 'companyid' is such a name.
C18_UnrecognizedInvalid ==
    /\ Unrecognized("companyid")
    /\ vOut.done =>
          \A i \in DOMAIN vIn :
              Unrecognized(vIn[i].mappedName) =>
                  /\ ~vOut.list[i].isValid
                  /\ vOut.list[i].errorMessage
                         = <<"is not a valid ProductTypeDto field",
                             vIn[i].mappedName>>

\* 'companyid' was validated beside a column mapped to companyID, and came
\* in marked valid
C18_Witness ==
    /\ vOut.done
    /\ \E i, j \in DOMAIN vIn :
          /\ vIn[i].mappedName = "companyid"
          /\ vIn[i].isValid
          /\ ~vOut.list[i].isValid
          /\ vIn[j].mappedName = "companyID"
          /\ vOut.list[j].isValid

\* the records that exports of this session have appended to the fetched
\* products
Committed ==
    SubSeq(productData, Len(mockProducts) + 1, Len(productData))

\* C15: the transform is deterministic on its inputs: every export of the
\* same row list and mapping list yields the same list of records, equal in
\* length, order, keys and values to the list of every other export.
C15_ReexportIdentical ==
    LET n == Len(csvData)
    IN  /\ \A i \in DOMAIN Committed :
              Committed[i] = Committed[((i - 1) % n) + 1]
        /\ \A t \in DOMAIN timers :
              /\ Len(timers[t].data) = n
              /\ \A u \in DOMAIN timers : timers[u].data = timers[t].data
              /\ Committed # <<>> =>
                     timers[t].data = SubSeq(Committed, 1, n)

\* the same row, with an edited cell and a metadata column, was exported
\* and committed twice
C15_Witness ==
    /\ timers = <<>>
    /\ Len(csvData) = 1
    /\ Len(Committed) = Len(csvData) + Len(csvData)
    /\ Committed[1] = Committed[2]
    /\ "metaData" \in DOMAIN Committed[1]
    /\ Committed[1]["productName"] = "edited"

\* some mapping of the current list is marked invalid
HasInvalid == \E i \in DOMAIN columnMappings : ~columnMappings[i].isValid

\* the import view is shown with rows loaded and no dialog over it
ImportViewReady ==
    /\ viewMode = "csvImport"
    /\ csvData # <<>>
    /\ ~editDialog.open

\* C14: while some mapping is invalid, a call of handleUploadToAPI produces
\* no records and leaves the product list, the row list, the mapping list
\* and the view mode unchanged, and nothing else is blocked: a mapping edit,
\* a row edit and its save, and a row delete can still be made.
C14_InvalidBlocksOnlyExport ==
    /\ [][HasInvalid /\ (UploadScheduled \/ UploadRefused) =>
            /\ ~UploadScheduled
            /\ UNCHANGED <<productData, csvData, columnMappings, viewMode>>
         ]_vars
    /\ [](HasInvalid /\ ImportViewReady =>
            /\ \A index \in DOMAIN columnMappings :
                  ENABLED HandleColumnMappingChange(index, "metaData")
            /\ \A index \in DOMAIN csvData :
                  /\ ENABLED HandleEditRow(index)
                  /\ ENABLED HandleDeleteRow(index))
    /\ [](HasInvalid /\ viewMode = "csvImport" /\ editDialog.open =>
            ENABLED HandleSaveEdit)

\* the upload was refused for an invalid mapping after a row had been
\* edited and another deleted while that mapping was invalid
C14_Witness ==
    /\ HasInvalid
    /\ toast = showError(
           "Please fix all column mapping issues before uploading", <<>>)
    /\ Len(csvData) = 1
    /\ csvData[1]["Name"] = "edited"
    /\ productData = mockProducts
    /\ timers = <<>>

\* a step in which the container reported the outcome `text`
Reported(text) ==
    /\ toast'.text = text
    /\ toast' # toast \/ productData' # productData

\* the positions of `products` that hold the id
Holding(products, id) ==
    {i \in DOMAIN products : products[i]["id"] = id}

\* every id that a call of this session can carry
KnownIds ==
    {productData[i]["id"] : i \in DOMAIN productData} \cup {AbsentId}

\* C19: an update by identifier leaves the length and the order of the
\* product list as they were, puts the one supplied record in the place of
\* exactly the products that have the id and leaves every other product as
\* it was; with an id that no product has the list is unchanged.
C19_UpdateReplacesById ==
    [][Reported("Product updated successfully") =>
        /\ Len(productData') = Len(productData)
        /\ \E id \in KnownIds :
              /\ \A i \in DOMAIN productData \ Holding(productData, id) :
                    productData'[i] = productData[i]
              /\ \A i, j \in Holding(productData, id) :
                    productData'[i] = productData'[j]
              /\ \A i \in Holding(productData, id) :
                    productData'[i]["productName"] = "Edited"
              /\ Holding(productData, id) = {} =>
                    productData' = productData]_vars

\* two products added in the same millisecond share an id, and one update
\* by that id replaced both and nothing else
C19_Witness ==
    /\ toast.text = "Product updated successfully"
    /\ Len(productData) = MaxProducts
    /\ productData[1] = mockProducts[1]
    /\ productData[2] = mockProducts[2]
    /\ \E i, j \in DOMAIN productData :
          /\ i < j
          /\ productData[i] = productData[j]
          /\ productData[i]["id"] = <<"new", 0>>
          /\ productData[i]["productName"] = "Edited"

\* C20: a delete by identifier happens only from the open confirmation
\* dialog with a non-empty id, removes exactly the products that have that
\* id and keeps all the others unchanged in their previous order.
C20_DeleteRemovesById ==
    [][Reported("Product deleted successfully") =>
        /\ confirmDialog.open
        /\ confirmDialog.type = "delete"
        /\ confirmDialog.itemId # <<>>
        /\ LET kept == DOMAIN productData
                           \ Holding(productData, confirmDialog.itemId)
           IN  /\ Len(productData') = Cardinality(kept)
               /\ \A i \in kept :
                     productData'[Cardinality({j \in kept : j <= i})]
                         = productData[i]
               /\ Holding(productData', confirmDialog.itemId) = {}]_vars

\* a product between two others was deleted, and a product with an empty id
\* was left alone
C20_Witness ==
    /\ toast.text = "Product deleted successfully"
    /\ ~confirmDialog.open
    /\ Len(productData) = 2
    /\ productData[1]["id"] = <<>>
    /\ productData[1]["companyID"] = "COMP001"
    /\ productData[2]["id"] = <<"new", 0>>

----------------------------------------------------------------------------
(* Image replacement. *)

\* the step is an image upload from the row `index` of the product grid
ImageUploaded(index) ==
    \E file \in ImageFiles : HandleRowImageUpload(index, file)

\* C21: an image upload for an id changes only the productImage of the
\* products with that id; their other fields, the other products, the
\* length and the order of the list stay as they were.
C21_ImageUploadFrame ==
    [][\A index \in DOMAIN productData :
          ImageUploaded(index) =>
              /\ Len(productData') = Len(productData)
              /\ \A i \in DOMAIN productData :
                    IF productData[i]["id"] = productData[index]["id"]
                    THEN /\ DOMAIN productData'[i] = DOMAIN productData[i]
                         /\ \A k \in DOMAIN productData[i] \ {"productImage"} :
                               productData'[i][k] = productData[i][k]
                    ELSE productData'[i] = productData[i]]_vars

\* an image was uploaded for the second product and the first is as fetched
C21_Witness ==
    /\ toast.text = "Image uploaded successfully"
    /\ Len(productData) = 2
    /\ productData[1] = mockProducts[1]
    /\ productData[2] = WithImage(mockProducts[2], "blob:pic.png")

----------------------------------------------------------------------------
(* Image uploads of the product edit dialog. *)

\* C29: the completion of an image upload writes the file name only into
\* the form of the product for which the upload was started; a form that
\* shows another product by then is left as it is.
C29_UploadWritesOwnForm ==
    [][ImageUploadCompletes =>
          \/ formData["id"] = Head(uploads).forId
          \/ formData' = formData]_vars

----------------------------------------------------------------------------
(* The stored mapping list. *)

\* C25: the stored mapping list is a fixed point of the validator: after a
\* file load and after every mapping change, validating it again returns it
\* unchanged.
C25_StoredListIsFixedPoint ==
    validateAllColumnMappings(columnMappings) = columnMappings

\* C26: in every stored mapping entry, blank ones included, isMetadata is
\* true exactly when mappedName is the metadata sentinel.
C26_MetadataFlagMatchesName ==
    \A i \in DOMAIN columnMappings :
        columnMappings[i].isMetadata <=>
            columnMappings[i].mappedName = "metaData"

----------------------------------------------------------------------------
(* The view's diagnostics and the export gate. *)

\* no mapping is marked invalid and the view lists no missing required
\* field and no duplicated field
ViewClean(mappings) ==
    /\ \A i \in DOMAIN mappings : mappings[i].isValid
    /\ unmappedRequiredFields(mappings) = <<>>
    /\ viewDuplicatedFields(mappings) = <<>>

\* C30: handleUploadToAPI schedules the upload of records exactly when no
\* mapping is marked invalid and the missing-required list and the
\* duplicate list that the mapping view shows are both empty; it refuses
\* exactly when one of the three fails.
C30_GateAgreesWithView ==
    [][/\ UploadScheduled => ViewClean(columnMappings)
       /\ UploadRefused => ~ViewClean(columnMappings)]_vars

\* the export was refused for a duplicate while every mapping is marked
\* valid, and the view lists the duplicated field
C30_Witness ==
    /\ toast.text = "Duplicate mappings found for"
    /\ \A i \in DOMAIN columnMappings : columnMappings[i].isValid
    /\ viewDuplicatedFields(columnMappings) = toast.fields
    /\ toast.fields # <<>>

----------------------------------------------------------------------------
(* Picks from the mapping dropdown. *)

\* C27: when every mapping change is a pick of an option that the dropdown
\* leaves enabled, no required field is the mappedName of two columns.
C27_DropdownPreventsDuplicates ==
    \A field \in Range(requiredApiFields) :
        Cardinality(ColumnsMappedTo(columnMappings, field)) <= 1

\* the first column was mapped to companyID, which the dropdown of the
\* second column then disables, and the second to productTypeID
C27_Witness ==
    /\ Len(columnMappings) = 2
    /\ columnMappings[1].mappedName = "companyID"
    /\ columnMappings[2].mappedName = "productTypeID"
    /\ OptionDisabled(columnMappings, 2, "companyID")
    /\ "companyID" \notin OptionsEnabled(columnMappings, 2)

----------------------------------------------------------------------------
(* Saving a row edit. *)

\* C28: handleSaveEdit replaces exactly the row that the dialog showed when
\* it was opened, with the form's data, and leaves the length of the row
\* list and every other row unchanged, also when a parse completion has
\* replaced the row list since the dialog was opened.
C28_SaveReplacesShownRow ==
    [][HandleSaveEdit /\ editDialog.rowIndex # NoRow =>
          LET index == editDialog.rowIndex[1]
          IN  /\ index \in DOMAIN csvData
              /\ csvData[index] = editDialog.rowData[1]
              /\ Len(csvData') = Len(csvData)
              /\ csvData'[index] = editFormData
              /\ \A k \in DOMAIN csvData \ {index} :
                    csvData'[k] = csvData[k]]_vars

----------------------------------------------------------------------------
(* Delayed completions. *)

\* C22: an upload that handleUploadToAPI scheduled holds the transformed
\* records of that call, no step removes it other than its firing, every
\* pending completion eventually fires, and the firing of an upload leaves
\* its records in the product list and the view mode at productGrid.
C22_UploadEventuallyCommits ==
    /\ [][UploadScheduled =>
             Emitted = transformedData(csvData, columnMappings)]_vars
    /\ [][timers' # timers => UploadScheduled \/ TimerFires]_vars
    /\ [][TimerFires /\ Head(timers).kind = "upload" =>
             /\ viewMode' = "productGrid"
             /\ Range(Head(timers).data) \subseteq Range(productData')]_vars
    /\ ([]<>(timers = <<>>) \/ []<><<TimerFires>>_vars)

\* the upload fired: its record is the last of the product list and the
\* product view is shown
C22_Witness ==
    /\ timers = <<>>
    /\ viewMode = "productGrid"
    /\ toast.text = "Successfully uploaded records!"
    /\ Len(productData) = 3
    /\ productData[3] = transformedData(csvData, columnMappings)[1]

\* C23: no change to the product list is lost when a delayed completion
\* fires: every product held before the firing is held after it, and the
\* only products that appear are the records of the completion.
C23_NoLostUpdate ==
    [][TimerFires =>
          /\ Range(productData) \subseteq Range(productData')
          /\ Range(productData') \subseteq
                 Range(productData) \cup Range(Head(timers).data)]_vars

\* C24: the ids of the products in the list are pairwise distinct.
C24_ProductIdsDistinct ==
    \A i, j \in DOMAIN productData :
        i # j => productData[i]["id"] # productData[j]["id"]

====
